---- MODULE Spec2Model ----
(***************************************************************************)
(* Model of files/interfaces_file.py: the parser of /etc/network/interfaces *)
(* style files (read_interfaces_lines), the single-option editor            *)
(* (setInterfaceOption) and one module run (main).                          *)
(*                                                                          *)
(* A Python str is a sequence of one-character strings; a Python list is a  *)
(* sequence; a dict with str keys is a function whose domain is a set of    *)
(* such sequences.  Indices returned by find and taken by Slice are         *)
(* 0-based, as in the code.                                                 *)
(***************************************************************************)
EXTENDS Integers, Sequences, FiniteSets, TLC

\* ------------------------------------------------------------------------
\* Bounds of the model
\* ------------------------------------------------------------------------

\* Longest destination file, in lines.
MaxLines == 3

\* Longest file of the parser-only specification, in lines.
MaxParseLines == 3

\* ------------------------------------------------------------------------
\* Python str / list primitives
\* ------------------------------------------------------------------------

Min2(a, b) == IF a < b THEN a ELSE b

Max2(a, b) == IF a > b THEN a ELSE b

\* The characters str.split() treats as separators.
IsSpace(c) == c \in {" ", "\t", "\n", "\r"}

\* str.split(): the maximal runs of non-whitespace characters, in order.
RECURSIVE SplitFrom(_, _, _, _)
SplitFrom(s, i, cur, acc) ==
    IF i > Len(s)
    THEN IF cur = <<>> THEN acc ELSE Append(acc, cur)
    ELSE IF IsSpace(s[i])
         THEN SplitFrom(s, i + 1, <<>>, IF cur = <<>> THEN acc ELSE Append(acc, cur))
         ELSE SplitFrom(s, i + 1, Append(cur, s[i]), acc)

split(s) == SplitFrom(s, 1, <<>>, <<>>)

\* " ".join(words)
RECURSIVE join(_)
join(words) ==
    IF words = <<>> THEN <<>>
    ELSE IF Len(words) = 1 THEN words[1]
    ELSE words[1] \o <<" ">> \o join(Tail(words))

\* sub occurs in s at 0-based offset i.
MatchAt(s, sub, i) ==
    /\ i >= 0
    /\ i + Len(sub) <= Len(s)
    /\ \A k \in 1..Len(sub) : s[i + k] = sub[k]

\* A slice bound as Python normalises it: negative counts from the end,
\* then clamped to 0..n.
NormIndex(i, n) == IF i < 0 THEN Max2(i + n, 0) ELSE Min2(i, n)

\* s.find(sub, start): lowest offset >= start where sub occurs, or -1.
find(s, sub, start) ==
    LET from == NormIndex(start, Len(s))
        hits == {i \in from..(Len(s) - Len(sub)) : MatchAt(s, sub, i)}
    IN  IF start > Len(s) \/ hits = {} THEN -1
        ELSE CHOOSE i \in hits : \A j \in hits : i <= j

\* s[a:b]
Slice(s, a, b) ==
    LET lo == NormIndex(a, Len(s))
        hi == NormIndex(b, Len(s))
    IN  IF lo >= hi THEN <<>> ELSE SubSeq(s, lo + 1, hi)

\* s[a:]
SliceFrom(s, a) == Slice(s, a, Len(s))

\* s[:b]
SliceTo(s, b) == Slice(s, 0, b)

\* s.replace(old, new): every non-overlapping occurrence, left to right; an
\* empty old matches before every character and at the end.
RECURSIVE ReplaceFrom(_, _, _, _)
ReplaceFrom(s, old, new, i) ==
    IF old = <<>>
    THEN IF i >= Len(s) THEN new
         ELSE new \o <<s[i + 1]>> \o ReplaceFrom(s, old, new, i + 1)
    ELSE IF i >= Len(s) THEN <<>>
         ELSE IF MatchAt(s, old, i)
              THEN new \o ReplaceFrom(s, old, new, i + Len(old))
              ELSE <<s[i + 1]>> \o ReplaceFrom(s, old, new, i + 1)

replace(s, old, new) == ReplaceFrom(s, old, new, 0)

\* len(lines) - lines[::-1].index(x): one past the 0-based position of the
\* last element equal to x (the element is known to be in the list).
LastIndexAfter(lst, x) ==
    CHOOSE i \in 1..Len(lst) :
        /\ lst[i] = x
        /\ \A j \in (i + 1)..Len(lst) : lst[j] # x

\* ------------------------------------------------------------------------
\* String literals of the source
\* ------------------------------------------------------------------------

S_hash == "#"

S_mapping == <<"m", "a", "p", "p", "i", "n", "g">>

S_source == <<"s", "o", "u", "r", "c", "e">>

S_source_dir == <<"s", "o", "u", "r", "c", "e", "-", "d", "i", "r">>

S_iface == <<"i", "f", "a", "c", "e">>

S_auto == <<"a", "u", "t", "o">>

S_allow == <<"a", "l", "l", "o", "w", "-">>

S_no_auto_down == <<"n", "o", "-", "a", "u", "t", "o", "-", "d", "o", "w", "n">>

S_no_scripts == <<"n", "o", "-", "s", "c", "r", "i", "p", "t", "s">>

\* The keys of the currif dict.
K_name == <<"n", "a", "m", "e">>

K_address_family == <<"a", "d", "d", "r", "e", "s", "s", "_", "f", "a", "m", "i", "l", "y">>

K_method == <<"m", "e", "t", "h", "o", "d">>

\* str(None)
S_None == <<"N", "o", "n", "e">>

\* Python's None where a str is expected (a parameter that was not given).
None == <<"<None>">>

\* A key a record dict does not have ('iface', 'option', 'value', 'params').
Absent == <<"<no such key>">>

\* The value of currently_processing before any directive: Python's None.
ModeUnset == "None"

\* ------------------------------------------------------------------------
\* Line records and dicts
\* ------------------------------------------------------------------------

EmptyDict == <<>>

\* d[k] = v
DictSet(d, k, v) == [x \in (DOMAIN d) \cup {k} |-> IF x = k THEN v ELSE d[x]]

\* Mutant of lineDict: the record keeps the line without its whitespace.
lineDict_stripped(line) ==
    [line |-> join(split(line)), line_type |-> "unknown",
     iface |-> Absent, option |-> Absent, value |-> Absent, params |-> Absent]

lineDict(line) ==
    [line |-> line, line_type |-> "unknown",
     iface |-> Absent, option |-> Absent, value |-> Absent, params |-> Absent]

optionDict(line, iface, option, value) ==
    [line |-> line, line_type |-> "option",
     iface |-> iface, option |-> option, value |-> value, params |-> Absent]

\* {'line':line, 'iface':iface_name, 'line_type':'iface', 'params': currif}
ifaceDict(line, iface_name, currif) ==
    [line |-> line, line_type |-> "iface",
     iface |-> iface_name, option |-> Absent, value |-> Absent, params |-> currif]

\* "iface" in item
HasIface(item) == item.iface # Absent

\* ------------------------------------------------------------------------
\* read_interfaces_lines
\* ------------------------------------------------------------------------

\* The loop state before the first line.  currif is the dict of the stanza
\* being filled; it is the same object as ifaces[curkey] and as the params
\* of the record at position curpos, so an assignment to it shows in both.
ParseStart ==
    [status |-> "running", msg |-> "none", lineno |-> 0, count |-> 0,
     lines |-> <<>>, ifaces |-> EmptyDict,
     currently_processing |-> ModeUnset,
     currif |-> EmptyDict, curkey |-> Absent, curpos |-> 0]

\* Mutant of AppendUnknown: the mode is left as it was.
AppendUnknown_same_mode(st, line, mode) ==
    [st EXCEPT !.lines = Append(@, lineDict(line))]

\* lines.append(lineDict(line)), with the mode the branch sets.
AppendUnknown(st, line, mode) ==
    [st EXCEPT !.lines = Append(@, lineDict(line)),
               !.currently_processing = mode]

\* module.fail_json(msg=...): the run ends there.
FailJson(st, msg, i, n) ==
    [st EXCEPT !.status = "fail_json", !.msg = msg, !.lineno = i, !.count = n]

\* An exception the code does not catch.
Raise(st, what, i) ==
    [st EXCEPT !.status = "exception", !.msg = what, !.lineno = i]

\* The 'iface' branch.
ParseIface(st, line, words, i) ==
    IF Len(SubSeq(words, 2, Min2(4, Len(words)))) # 3
    THEN \* iface_name, address_family_name, method_name = words[1:4]
         Raise(st, "ValueError", i)
    ELSE IF Len(words) # 4
    THEN FailJson(st, "Incorrect number of parameters", i, Len(words))
    ELSE LET currif == DictSet(DictSet(DictSet(EmptyDict,
                           K_name, words[2]), K_address_family, words[3]),
                           K_method, words[4])
         IN  [st EXCEPT !.currif = currif,
                        !.curkey = words[2],
                        !.curpos = Len(st.lines) + 1,
                        !.ifaces = DictSet(@, words[2], currif),
                        !.lines = Append(@, ifaceDict(line, words[2], currif)),
                        !.currently_processing = "IFACE"]

\* Mutant of ParseOther: a line before any directive is kept as unknown.
ParseOther_lenient(st, line, words, i) ==
    IF st.currently_processing = "IFACE"
    THEN LET option_name == words[1]
             value == join(Tail(words))
             currif == DictSet(st.currif, option_name, value)
         IN  [st EXCEPT !.lines =
                            [Append(@, optionDict(line, st.currif[K_name], option_name, value))
                                EXCEPT ![st.curpos].params = currif],
                        !.currif = currif,
                        !.ifaces = DictSet(@, st.curkey, currif)]
    ELSE AppendUnknown(st, line, st.currently_processing)

\* The final else branch: a line whose first word is no directive.
ParseOther(st, line, words, i) ==
    IF st.currently_processing = "IFACE"
    THEN LET option_name == words[1]
             value == join(Tail(words))
             currif == DictSet(st.currif, option_name, value)
         IN  [st EXCEPT !.lines =
                            [Append(@, optionDict(line, st.currif[K_name], option_name, value))
                                EXCEPT ![st.curpos].params = currif],
                        !.currif = currif,
                        !.ifaces = DictSet(@, st.curkey, currif)]
    ELSE IF st.currently_processing = "MAPPING"
    THEN AppendUnknown(st, line, st.currently_processing)
    ELSE IF st.currently_processing = "NONE"
    THEN AppendUnknown(st, line, st.currently_processing)
    ELSE FailJson(st, "misplaced option", i, 0)

\* One iteration of the for loop, on line number i (1-based).
ParseLine(st, line, i) ==
    LET words == split(line)
    IN  IF Len(words) < 1 THEN AppendUnknown(st, line, st.currently_processing)
        ELSE IF words[1][1] = S_hash THEN AppendUnknown(st, line, st.currently_processing)
        ELSE IF words[1] = S_mapping THEN AppendUnknown(st, line, "MAPPING")
        ELSE IF words[1] = S_source THEN AppendUnknown(st, line, "NONE")
        ELSE IF words[1] = S_source_dir THEN AppendUnknown(st, line, "NONE")
        ELSE IF words[1] = S_iface THEN ParseIface(st, line, words, i)
        ELSE IF words[1] = S_auto THEN AppendUnknown(st, line, "NONE")
        ELSE IF words[1] = S_allow THEN AppendUnknown(st, line, "NONE")
        ELSE IF words[1] = S_no_auto_down THEN AppendUnknown(st, line, "NONE")
        ELSE IF words[1] = S_no_scripts THEN AppendUnknown(st, line, "NONE")
        ELSE ParseOther(st, line, words, i)

RECURSIVE ParseLoop(_, _, _)
ParseLoop(st, line_strings, i) ==
    IF i > Len(line_strings) \/ st.status # "running" THEN st
    ELSE ParseLoop(ParseLine(st, line_strings[i], i), line_strings, i + 1)

\* The outcome of read_interfaces_lines(module, line_strings): status "ok"
\* with lines and ifaces, or the failure that ended the run.
read_interfaces_lines(line_strings) ==
    LET st == ParseLoop(ParseStart, line_strings, 1)
    IN  IF st.status = "running" THEN [st EXCEPT !.status = "ok"] ELSE st

\* ------------------------------------------------------------------------
\* setInterfaceOption
\* ------------------------------------------------------------------------

\* str(raw_value)
str(raw_value) == IF raw_value = None THEN S_None ELSE raw_value

\* lines.insert(index, x)
InsertAt(lst, index, x) ==
    SubSeq(lst, 1, index) \o <<x>> \o SubSeq(lst, index + 1, Len(lst))

\* Mutant of IfaceLines: only the header records of the interface.
IfaceLines_headers(lines, iface) ==
    SelectSeq(lines, LAMBDA item : item.line_type = "iface" /\ item.iface = iface)

\* [item for item in lines if "iface" in item and item["iface"] == iface]
IfaceLines(lines, iface) ==
    SelectSeq(lines, LAMBDA item : HasIface(item) /\ item.iface = iface)

\* filter(lambda i: i['line_type'] == 'option', iface_lines)
IfaceOptions(lines, iface) ==
    SelectSeq(IfaceLines(lines, iface), LAMBDA i : i.line_type = "option")

\* filter(lambda i: i['option'] == option, iface_options)
TargetOptions(lines, iface, option) ==
    SelectSeq(IfaceOptions(lines, iface), LAMBDA i : i.option = option)

\* The text of the line "add new option" builds from the anchor last_line.
NewOptionLine(last_line, option, value, has_options) ==
    LET words == split(last_line)
        prefix_start == find(last_line, words[1], 0)
        suffix_start == find(last_line, words[Len(words)], 0) + Len(words[Len(words)])
    IN  SliceTo(last_line, prefix_start)
            \o (IF has_options THEN <<>> ELSE <<" ", " ", " ", " ">>)
            \o option \o <<" ">> \o value
            \o SliceFrom(last_line, suffix_start)

\* Mutant of AddOption: the new line is appended at the end of the file.
AddOption_at_end(lines, iface, option, value) ==
    LET iface_lines == IfaceLines(lines, iface)
        last_line_dict == iface_lines[Len(iface_lines)]
        line == NewOptionLine(last_line_dict.line, option, value,
                              Len(IfaceOptions(lines, iface)) >= 1)
    IN  Append(lines, optionDict(line, iface, option, value))

\* state present, no target option: add new option after the last line of
\* the interface.
AddOption(lines, iface, option, value) ==
    LET iface_lines == IfaceLines(lines, iface)
        last_line_dict == iface_lines[Len(iface_lines)]
        line == NewOptionLine(last_line_dict.line, option, value,
                              Len(IfaceOptions(lines, iface)) >= 1)
        index == LastIndexAfter(lines, last_line_dict)
    IN  InsertAt(lines, index, optionDict(line, iface, option, value))

\* The text "edit the last one" builds from old_line.
EditedLine(old_line, option, old_value, value) ==
    LET prefix_start == find(old_line, option, 0)
        start == find(old_line, old_value, prefix_start + Len(option) - 1)
    IN  SliceTo(old_line, start)
            \o replace(Slice(old_line, start, start + Len(old_value)), old_value, value)
            \o SliceFrom(old_line, start + Len(old_value))

\* Mutant of ValueDiffers: the values are compared as written.
ValueDiffers_raw(old_value, value) == old_value # value

\* cmp(target_options[-1]['value'].split(), value.split()) != 0
ValueDiffers(old_value, value) == split(old_value) # split(value)

\* Mutant of EditOption: the edited record is built but not stored.
EditOption_not_stored(lines, iface, option, value) == lines

\* state present, a target option exists and its value differs: replace the
\* record of the last target option.
EditOption(lines, iface, option, value) ==
    LET target_options == TargetOptions(lines, iface, option)
        target_option == target_options[Len(target_options)]
        line == EditedLine(target_option.line, option, target_option.value, value)
        index == LastIndexAfter(lines, target_option)
    IN  [lines EXCEPT ![index] = optionDict(line, iface, option, value)]

\* Mutant of RemoveOption: every line of the option is removed, whatever
\* its text.
RemoveOption_all(lines, target) ==
    SelectSeq(lines, LAMBDA l : ~(l.iface = target.iface /\ l.option = target.option))

\* Mutant of RemoveOption: only the first record equal to the target goes,
\* as lines.remove(target) would do.
RemoveOption_first(lines, target) ==
    LET first == CHOOSE k \in 1..Len(lines) :
                    lines[k] = target /\ \A j \in 1..(k - 1) : lines[j] # target
    IN  SubSeq(lines, 1, first - 1) \o SubSeq(lines, first + 1, Len(lines))

\* state absent: filter(lambda l: l != target_options[0], lines)
RemoveOption(lines, target) == SelectSeq(lines, LAMBDA l : l # target)

\* The outcome of setInterfaceOption: status "ok" with changed and lines, or
\* the fail_json that ended the run.
setInterfaceOption(lines, iface, option, raw_value, state) ==
    LET value == str(raw_value)
        target_options == TargetOptions(lines, iface, option)
    IN  IF Len(IfaceLines(lines, iface)) < 1
        THEN [status |-> "fail_json", msg |-> "interface not found",
              changed |-> FALSE, lines |-> lines]
        ELSE IF state = "present"
        THEN IF Len(target_options) < 1
             THEN [status |-> "ok", msg |-> "none", changed |-> TRUE,
                   lines |-> AddOption(lines, iface, option, value)]
             ELSE IF ValueDiffers(target_options[Len(target_options)].value, value)
             THEN [status |-> "ok", msg |-> "none", changed |-> TRUE,
                   lines |-> EditOption(lines, iface, option, value)]
             ELSE [status |-> "ok", msg |-> "none", changed |-> FALSE, lines |-> lines]
        ELSE IF state = "absent"
        THEN IF Len(target_options) >= 1
             THEN [status |-> "ok", msg |-> "none", changed |-> TRUE,
                   lines |-> RemoveOption(lines, target_options[1])]
             ELSE [status |-> "ok", msg |-> "none", changed |-> FALSE, lines |-> lines]
        ELSE [status |-> "fail_json", msg |-> "unsupported state",
              changed |-> FALSE, lines |-> lines]

\* [d['line'] for d in lines if 'line' in d]
LineTexts(lines) == [k \in 1..Len(lines) |-> lines[k].line]

\* ------------------------------------------------------------------------
\* Inputs: the lines files are made of, and the module parameters
\* ------------------------------------------------------------------------

Sp == <<" ">>

NL == <<"\n">>

N_eth0 == <<"e", "t", "h", "0">>

N_eth1 == <<"e", "t", "h", "1">>

O_mtu == <<"m", "t", "u">>

O_up == <<"u", "p">>

V_9 == <<"9">>

\* "1  2": two words, two spaces between them.
V_1_2 == <<"1", " ", " ", "2">>

W_inet == <<"i", "n", "e", "t">>

W_static == <<"s", "t", "a", "t", "i", "c">>

W_dhcp == <<"d", "h", "c", "p">>

\* "iface eth0 inet static\n"
L_iface_eth0 == S_iface \o Sp \o N_eth0 \o Sp \o W_inet \o Sp \o W_static \o NL

\* "iface eth1 inet dhcp\n"
L_iface_eth1 == S_iface \o Sp \o N_eth1 \o Sp \o W_inet \o Sp \o W_dhcp \o NL

\* "iface eth0 inet\n": an iface line of three words
L_iface_short == S_iface \o Sp \o N_eth0 \o Sp \o W_inet \o NL

\* "iface eth0 inet static dhcp\n": an iface line of five words
L_iface_long ==
    S_iface \o Sp \o N_eth0 \o Sp \o W_inet \o Sp \o W_static \o Sp \o W_dhcp \o NL

\* "auto eth0\n"
L_auto == S_auto \o Sp \o N_eth0 \o NL

\* "mapping eth0\n"
L_mapping == S_mapping \o Sp \o N_eth0 \o NL

\* "#c\n"
L_comment == <<"#", "c", "\n">>

\* "\n"
L_blank == NL

\* "  mtu 1\n"
L_mtu_1 == Sp \o Sp \o O_mtu \o Sp \o <<"1">> \o NL

\* "  mtu 1  2\n": the value written with two spaces between its words
L_mtu_1_2 == Sp \o Sp \o O_mtu \o Sp \o V_1_2 \o NL

\* "  mtu\n": an option with an empty value
L_mtu_empty == Sp \o Sp \o O_mtu \o NL

\* "up a up\n": the last word also occurs earlier in the line
L_up == O_up \o Sp \o <<"a">> \o Sp \o O_up \o NL

\* "name eth1\n": an option called like a key of the stanza dict
L_name == K_name \o Sp \o N_eth1 \o NL

\* The lines the destination files of Spec are made of.
EditLines ==
    {L_iface_eth0, L_auto, L_mtu_1, L_mtu_1_2, L_mtu_empty, L_up, L_name}

\* "source x\n"
L_source == S_source \o Sp \o <<"x">> \o NL

\* "source-dir x\n"
L_source_dir == S_source_dir \o Sp \o <<"x">> \o NL

\* "allow- x\n"
L_allow == S_allow \o Sp \o <<"x">> \o NL

\* "no-auto-down x\n"
L_no_auto_down == S_no_auto_down \o Sp \o <<"x">> \o NL

\* "no-scripts x\n"
L_no_scripts == S_no_scripts \o Sp \o <<"x">> \o NL

\* The lines the files of SpecParse are made of.
ParseLines ==
    EditLines \cup {L_iface_eth1, L_iface_short, L_iface_long,
                    L_mapping, L_comment, L_blank,
                    L_source, L_source_dir, L_allow, L_no_auto_down, L_no_scripts}

\* All non-empty sequences over S of length at most n.
SeqsUpTo(S, n) == UNION {[1..k -> S] : k \in 1..n}

Files == SeqsUpTo(EditLines, MaxLines)

ParseFiles == SeqsUpTo(ParseLines, MaxParseLines)

\* Every combination of module.params and module.check_mode.
AllParams ==
    [iface : {None, N_eth0, N_eth1},
     option : {None, O_mtu, O_up},
     value : {None, V_9, V_1_2},
     backup : BOOLEAN,
     state : {"present", "absent"},
     check_mode : BOOLEAN]

\* The combinations the runs are started with: a parameter the run never
\* reads is left at its default (iface, value and state without an option,
\* value with state absent).
Params ==
    {p \in AllParams :
        /\ p.option = None => p.iface = None /\ p.value = None /\ p.state = "present"
        /\ p.state = "absent" => p.value = None}

\* A run that only reads: no option given.
ReadOnlyParams ==
    {p \in Params : p.option = None /\ p.iface = None /\ p.value = None
                    /\ ~p.backup /\ p.state = "present" /\ ~p.check_mode}

\* ------------------------------------------------------------------------
\* One module run: main()
\* ------------------------------------------------------------------------

VARIABLES
    dest_file,  \* the content of the file at dest: a sequence of lines
    params,     \* module.params, and check_mode
    pc,         \* where main() is
    lines,      \* main's lines
    ifaces,     \* main's ifaces
    changed,    \* main's changed
    failure,    \* how the run failed, once it has
    io          \* what the run did to the destination file, in order

vars == <<dest_file, params, pc, lines, ifaces, changed, failure, io>>

NoFailure == [status |-> "none", msg |-> "none", lineno |-> 0, count |-> 0]

Failure(r) == [status |-> r.status, msg |-> r.msg, lineno |-> r.lineno, count |-> r.count]

InitRun ==
    /\ pc = "start"
    /\ lines = <<>>
    /\ ifaces = EmptyDict
    /\ changed = FALSE
    /\ failure = NoFailure
    /\ io = <<>>

Init ==
    /\ dest_file \in Files
    /\ params \in Params
    /\ InitRun

InitParse ==
    /\ dest_file \in ParseFiles
    /\ params \in ReadOnlyParams
    /\ InitRun

\* The two checks of the parameters before the file is opened.
CheckParams ==
    /\ pc = "start"
    /\ IF params.option # None /\ params.iface = None
       THEN /\ pc' = "failed"
            /\ failure' = [NoFailure EXCEPT !.status = "fail_json",
                                            !.msg = "Inteface must be set"]
       ELSE IF params.option # None /\ params.state = "present" /\ params.value = None
       THEN /\ pc' = "failed"
            /\ failure' = [NoFailure EXCEPT !.status = "fail_json",
                                            !.msg = "Value must be set"]
       ELSE /\ pc' = "read"
            /\ UNCHANGED failure
    /\ UNCHANGED <<dest_file, params, lines, ifaces, changed, io>>

\* lines, ifaces = read_interfaces_file(module, dest); changed = False
ReadInterfacesFile ==
    /\ pc = "read"
    /\ io' = Append(io, "read")
    /\ LET r == read_interfaces_lines(dest_file)
       IN  IF r.status = "ok"
           THEN /\ lines' = r.lines
                /\ ifaces' = r.ifaces
                /\ pc' = "edit"
                /\ UNCHANGED failure
           ELSE /\ pc' = "failed"
                /\ failure' = Failure(r)
                /\ UNCHANGED <<lines, ifaces>>
    /\ changed' = FALSE
    /\ UNCHANGED <<dest_file, params>>

\* if option != None: changed, lines = setInterfaceOption(...)
SetOption ==
    /\ pc = "edit"
    /\ IF params.option = None
       THEN /\ pc' = "reparse"
            /\ UNCHANGED <<lines, changed, failure>>
       ELSE LET r == setInterfaceOption(lines, params.iface, params.option,
                                        params.value, params.state)
            IN  IF r.status = "ok"
                THEN /\ lines' = r.lines
                     /\ changed' = r.changed
                     /\ pc' = "reparse"
                     /\ UNCHANGED failure
                ELSE /\ pc' = "failed"
                     /\ failure' = [NoFailure EXCEPT !.status = r.status, !.msg = r.msg]
                     /\ UNCHANGED <<lines, changed>>
    /\ UNCHANGED <<dest_file, params, ifaces, io>>

\* if changed: _, ifaces = read_interfaces_lines(module, [d['line'] ...])
Reparse ==
    /\ pc = "reparse"
    /\ IF changed
       THEN LET r == read_interfaces_lines(LineTexts(lines))
            IN  IF r.status = "ok"
                THEN /\ ifaces' = r.ifaces
                     /\ pc' = "commit"
                     /\ UNCHANGED failure
                ELSE /\ pc' = "failed"
                     /\ failure' = Failure(r)
                     /\ UNCHANGED ifaces
       ELSE /\ pc' = "commit"
            /\ UNCHANGED <<ifaces, failure>>
    /\ UNCHANGED <<dest_file, params, lines, changed, io>>

\* if changed and not module.check_mode: if backup: module.backup_local(dest)
BackupLocal ==
    /\ pc = "commit"
    /\ changed /\ ~params.check_mode
    /\ params.backup
    /\ io' = Append(io, "backup")
    /\ pc' = "write"
    /\ UNCHANGED <<dest_file, params, lines, ifaces, changed, failure>>

\* Mutant of WriteChanges: check mode is not looked at.
WriteChanges_in_check_mode ==
    /\ \/ pc = "write"
       \/ pc = "commit" /\ changed /\ ~params.backup
    /\ dest_file' = LineTexts(lines)
    /\ io' = Append(io, "write")
    /\ pc' = "exit"
    /\ UNCHANGED <<params, lines, ifaces, changed, failure>>

\* write_changes(module, [d['line'] for d in lines if 'line' in d], dest)
WriteChanges ==
    /\ \/ pc = "write"
       \/ pc = "commit" /\ changed /\ ~params.check_mode /\ ~params.backup
    /\ dest_file' = LineTexts(lines)
    /\ io' = Append(io, "write")
    /\ pc' = "exit"
    /\ UNCHANGED <<params, lines, ifaces, changed, failure>>

\* module.exit_json(dest=dest, changed=changed, ifaces=ifaces)
ExitJson ==
    /\ \/ pc = "exit"
       \/ pc = "commit" /\ ~(changed /\ ~params.check_mode)
    /\ pc' = "done"
    /\ UNCHANGED <<dest_file, params, lines, ifaces, changed, failure, io>>

Next ==
    \/ CheckParams
    \/ ReadInterfacesFile
    \/ SetOption
    \/ Reparse
    \/ BackupLocal
    \/ WriteChanges
    \/ ExitJson

Spec == Init /\ [][Next]_vars

\* A run without an option: the file is read and reported, never edited.
NextParse ==
    \/ CheckParams
    \/ ReadInterfacesFile
    \/ SetOption
    \/ Reparse
    \/ ExitJson

SpecParse == InitParse /\ [][NextParse]_vars

\* ------------------------------------------------------------------------
\* Vocabulary of the properties
\* ------------------------------------------------------------------------

MinOf(S) == CHOOSE x \in S : \A y \in S : x <= y

MaxOf(S) == CHOOSE x \in S : \A y \in S : x >= y

\* lst without its element at position p.
RemoveAt(lst, p) == SubSeq(lst, 1, p - 1) \o SubSeq(lst, p + 1, Len(lst))

\* The step in which a call of setInterfaceOption returns.
EditStep == pc = "edit" /\ params.option # None /\ pc' = "reparse"

\* Positions of the records of ls that carry the requested interface name.
OwnPositions(ls) == {k \in 1..Len(ls) : ls[k].iface = params.iface}

\* Positions of the option records of the requested interface in ls.
OwnOptionPositions(ls) == {k \in OwnPositions(ls) : ls[k].line_type = "option"}

\* Positions of the records of the requested option of the requested
\* interface in ls.
TargetPositions(ls) == {k \in OwnOptionPositions(ls) : ls[k].option = params.option}

\* b is a with one element inserted, one removed or one replaced, or a.
OnePositionApart(a, b) ==
    \/ a = b
    \/ \E q \in 1..Len(b) : a = RemoveAt(b, q)
    \/ \E q \in 1..Len(a) : b = RemoveAt(a, q)
    \/ /\ Len(a) = Len(b)
       /\ \E q \in 1..Len(a) : \A k \in 1..Len(a) : k # q => a[k] = b[k]

\* ------------------------------------------------------------------------
\* C1
\* ------------------------------------------------------------------------

\* C1: when read_interfaces_lines succeeds, the result has one record per
\* input line, in input order, and each record's 'line' is the input line
\* unchanged.
C1_RoundTrip ==
    pc = "edit" =>
        /\ Len(lines) = Len(dest_file)
        /\ \A k \in 1..Len(lines) : lines[k].line = dest_file[k]

\* A parsed file of three lines with a header, an option and another line.
C1_Witness ==
    /\ pc = "edit"
    /\ Len(lines) = 3
    /\ \E k \in 1..3 : lines[k].line_type = "iface"
    /\ \E k \in 1..3 : lines[k].line_type = "option"
    /\ \E k \in 1..3 : lines[k].line_type = "unknown" /\ lines[k].line = L_blank

\* ------------------------------------------------------------------------
\* C2
\* ------------------------------------------------------------------------

C3_PresentIdempotent ==
    (pc = "reparse" /\ params.option # None /\ params.state = "present" /\ changed) =>
        LET again == read_interfaces_lines(LineTexts(lines))
            second == setInterfaceOption(again.lines, params.iface, params.option,
                                         params.value, params.state)
        IN  /\ again.status = "ok"
            /\ second.status = "ok"
            /\ ~second.changed
            /\ LineTexts(second.lines) = LineTexts(lines)

\* ------------------------------------------------------------------------
\* C4
\* ------------------------------------------------------------------------

\* C4: with state present and no line of the option in the interface, one
\* record is inserted right after the last record of the whole sequence that
\* carries the interface name, everything before and after it is kept, and
\* changed is true.
C4_InsertAfterLast ==
    [][(EditStep /\ params.state = "present" /\ TargetPositions(lines) = {}) =>
        LET last == MaxOf(OwnPositions(lines))
        IN  /\ changed'
            /\ Len(lines') = Len(lines) + 1
            /\ \A k \in 1..last : lines'[k] = lines[k]
            /\ \A k \in (last + 1)..Len(lines) : lines'[k + 1] = lines[k]
            /\ lines'[last + 1].line_type = "option"
            /\ lines'[last + 1].iface = params.iface
            /\ lines'[last + 1].option = params.option
            /\ lines'[last + 1].value = str(params.value)
    ]_vars

\* A new option line stands third of four, after an option line of the
\* interface and before a line that is no part of it.
C4_Witness ==
    /\ pc = "reparse"
    /\ params.state = "present"
    /\ changed
    /\ Len(dest_file) = 3
    /\ Len(lines) = 4
    /\ lines[2].line_type = "option" /\ lines[2].iface = params.iface
    /\ lines[3].option = params.option /\ lines[3].iface = params.iface
    /\ lines[4].line_type = "unknown" /\ lines[4].line = dest_file[3]

\* ------------------------------------------------------------------------
\* C5
\* ------------------------------------------------------------------------

\* The whitespace s starts with.
LeadingSpace(s) ==
    SubSeq(s, 1, MaxOf({n \in 0..Len(s) : \A k \in 1..n : IsSpace(s[k])}))

\* The whitespace s ends with: its text after its last word.
TrailingSpace(s) ==
    SubSeq(s, MinOf({n \in 1..(Len(s) + 1) : \A k \in n..Len(s) : IsSpace(s[k])}), Len(s))

\* C5: the text of an inserted option line is the anchor line's leading
\* whitespace, four more spaces when the interface has no option line, the
\* option, one space, the value, and the anchor line's text after its last
\* word.
C5_NewLineText ==
    [][(EditStep /\ params.state = "present" /\ TargetPositions(lines) = {}) =>
        LET last == MaxOf(OwnPositions(lines))
            anchor == lines[last].line
        IN  lines'[last + 1].line =
                LeadingSpace(anchor)
                    \o (IF OwnOptionPositions(lines) = {} THEN <<" ", " ", " ", " ">> ELSE <<>>)
                    \o params.option \o <<" ">> \o str(params.value)
                    \o TrailingSpace(anchor)
    ]_vars

\* ------------------------------------------------------------------------
\* C6
\* ------------------------------------------------------------------------

\* The outcome of the same call once more, on ls.
SecondCall(ls) ==
    setInterfaceOption(ls, params.iface, params.option, params.value, params.state)

C7_AbsentRemovesAll ==
    (pc = "reparse" /\ params.option # None /\ params.state = "absent") =>
        TargetPositions(lines) = {}

\* ------------------------------------------------------------------------
\* C8
\* ------------------------------------------------------------------------

\* C8: with state present and at least one line of the option, the words of
\* the last such line's value are compared with the words of the new value;
\* if equal nothing changes and changed=false; otherwise that last record is
\* replaced in place, all other records (earlier lines of the option too)
\* and the length are kept, and changed=true.
C8_EditsLast ==
    [][(EditStep /\ params.state = "present" /\ TargetPositions(lines) # {}) =>
        LET last == MaxOf(TargetPositions(lines))
        IN  IF split(lines[last].value) = split(str(params.value))
            THEN lines' = lines /\ ~changed'
            ELSE /\ changed'
                 /\ Len(lines') = Len(lines)
                 /\ \A k \in 1..Len(lines) : k # last => lines'[k] = lines[k]
                 /\ lines'[last] # lines[last]
                 /\ lines'[last].line_type = "option"
                 /\ lines'[last].iface = params.iface
                 /\ lines'[last].option = params.option
                 /\ lines'[last].value = str(params.value)
    ]_vars

\* The option is on lines two and three; line three has the new value and
\* line two is as in the file.
C8_Witness ==
    /\ pc = "reparse"
    /\ params.state = "present"
    /\ changed
    /\ Len(dest_file) = 3
    /\ Len(lines) = 3
    /\ TargetPositions(lines) = {2, 3}
    /\ lines[2].line = dest_file[2]
    /\ lines[3].value = params.value
    /\ lines[3].line # dest_file[3]

\* ------------------------------------------------------------------------
\* C9
\* ------------------------------------------------------------------------

\* C9: a call of setInterfaceOption fails with "interface not found" exactly
\* when no record carries the requested interface name, whatever the state;
\* the failing call leaves the sequence as it was, and the failed run does
\* nothing more: the file is not written.
C9_InterfaceNotFound ==
    [][/\ (pc = "edit" /\ params.option # None) =>
            /\ (pc' = "failed" /\ failure'.msg = "interface not found")
                    <=> OwnPositions(lines) = {}
            /\ pc' = "failed" => lines' = lines /\ dest_file' = dest_file /\ io' = io
       /\ pc = "failed" => pc' = "failed" /\ dest_file' = dest_file /\ io' = io
    ]_vars

\* A run with state absent failed on an interface that the file, which has
\* another interface, does not have.
C9_Witness ==
    /\ pc = "failed"
    /\ failure.msg = "interface not found"
    /\ params.state = "absent"
    /\ \E k \in 1..Len(lines) : lines[k].line_type = "iface"
    /\ io = <<"read">>

\* ------------------------------------------------------------------------
\* C10
\* ------------------------------------------------------------------------

\* Numbers of the lines of the file whose first word is 'iface' and that do
\* not have four words.
MalformedIfaceLines ==
    {k \in 1..Len(dest_file) :
        LET words == split(dest_file[k])
        IN  Len(words) >= 1 /\ words[1] = S_iface /\ Len(words) # 4}

\* C10: a file with an 'iface' line of fewer or more than four words is never
\* parsed: unless an earlier line has already failed, the parse fails with
\* the malformed-iface-line error naming the number of that line.
C10_MalformedIface ==
    (pc \notin {"start", "read"} /\ MalformedIfaceLines # {}) =>
        /\ pc = "failed"
        /\ \/ failure.lineno < MinOf(MalformedIfaceLines)
           \/ /\ failure.status = "fail_json"
              /\ failure.msg = "Incorrect number of parameters"
              /\ failure.lineno = MinOf(MalformedIfaceLines)

\* ------------------------------------------------------------------------
\* Vocabulary of the properties about parsing
\* ------------------------------------------------------------------------

\* The first words that are directives.
Directives ==
    {S_mapping, S_source, S_source_dir, S_iface, S_auto, S_allow,
     S_no_auto_down, S_no_scripts}

\* line is blank or a comment.
IsBlankOrComment(line) ==
    split(line) = <<>> \/ split(line)[1][1] = "#"

\* line is a directive line.
IsDirectiveLine(line) ==
    ~IsBlankOrComment(line) /\ split(line)[1] \in Directives

\* line is neither blank, nor a comment, nor a directive line.
IsPlainLine(line) ==
    ~IsBlankOrComment(line) /\ split(line)[1] \notin Directives

\* The parse of the file is over, with or without success.
ParseOver == pc \notin {"start", "read"}

\* ------------------------------------------------------------------------
\* C11
\* ------------------------------------------------------------------------

\* C11: the count carried by the malformed-iface-line error is the number of
\* arguments after the word 'iface' on the line it names: 4 for a line of
\* five words.
C11_ArgumentCount ==
    (pc = "failed" /\ failure.msg = "Incorrect number of parameters") =>
        failure.count = Len(split(dest_file[failure.lineno])) - 1

\* ------------------------------------------------------------------------
\* C12
\* ------------------------------------------------------------------------

\* C12: the parse fails with the misplaced-option error at line N exactly
\* when line N is a non-blank, non-comment line whose first word is no
\* directive and no directive line comes before it (N being the first such
\* line, where the parse ends); blank and comment lines before the first
\* directive do not cause the error, and after a directive it cannot occur.
C12_MisplacedOption ==
    ParseOver =>
        \A n \in 1..Len(dest_file) :
            (pc = "failed" /\ failure.msg = "misplaced option" /\ failure.lineno = n)
                <=> /\ IsPlainLine(dest_file[n])
                    /\ \A j \in 1..(n - 1) : IsBlankOrComment(dest_file[j])

\* The parse failed on an option in line three, after a blank line and a
\* comment.
C12_Witness ==
    /\ pc = "failed"
    /\ failure.msg = "misplaced option"
    /\ failure.lineno = 3
    /\ {dest_file[1], dest_file[2]} = {L_blank, L_comment}

\* ------------------------------------------------------------------------
\* C13
\* ------------------------------------------------------------------------

\* C13: in the result of a successful parse, the interface name of each
\* option record is the interface name of an iface record earlier in the
\* sequence.
C13_OptionHasHeader ==
    pc = "edit" =>
        \A k \in 1..Len(lines) :
            lines[k].line_type = "option" =>
                \E j \in 1..(k - 1) :
                    lines[j].line_type = "iface" /\ lines[j].iface = lines[k].iface

\* ------------------------------------------------------------------------
\* C14
\* ------------------------------------------------------------------------

\* C14: after a call of setInterfaceOption that changed the sequence, parsing
\* the line texts of the returned records succeeds and gives, position by
\* position, records of the same kind, interface name, option name and
\* option value; after a present edit the parsed interface map has the
\* words of the requested value for the option of the requested interface.
C14_ReparseAgrees ==
    (pc = "reparse" /\ params.option # None /\ changed) =>
        LET again == read_interfaces_lines(LineTexts(lines))
        IN  /\ again.status = "ok"
            /\ Len(again.lines) = Len(lines)
            /\ \A k \in 1..Len(lines) :
                /\ again.lines[k].line_type = lines[k].line_type
                /\ again.lines[k].iface = lines[k].iface
                /\ again.lines[k].option = lines[k].option
                /\ again.lines[k].value = lines[k].value
            /\ params.state = "present" =>
                /\ params.iface \in DOMAIN again.ifaces
                /\ params.option \in DOMAIN again.ifaces[params.iface]
                /\ split(again.ifaces[params.iface][params.option]) = split(str(params.value))

\* ------------------------------------------------------------------------
\* C15
\* ------------------------------------------------------------------------

\* Numbers of the directive lines of the file before line k.
DirectivesBefore(k) == {j \in 1..(k - 1) : IsDirectiveLine(dest_file[j])}

\* Line k is a plain line and the nearest directive line before it is an
\* 'iface' line.
InStanza(k) ==
    /\ IsPlainLine(dest_file[k])
    /\ DirectivesBefore(k) # {}
    /\ split(dest_file[MaxOf(DirectivesBefore(k))])[1] = S_iface

\* C15: in a successful parse a line is an option record exactly when it is
\* non-blank, no comment, its first word no directive and the nearest
\* directive line before it an 'iface' line; an 'iface' line is an iface
\* record and every other line is unknown, so blank and comment lines do not
\* change the mode and a plain line after any other directive is unknown.
C15_Classification ==
    pc = "edit" =>
        \A k \in 1..Len(dest_file) :
            lines[k].line_type =
                IF InStanza(k) THEN "option"
                ELSE IF IsDirectiveLine(dest_file[k]) /\ split(dest_file[k])[1] = S_iface
                THEN "iface"
                ELSE "unknown"

\* A header, a comment, then an option of the header's stanza.
C15_Witness ==
    /\ pc = "edit"
    /\ Len(lines) = 3
    /\ lines[1].line_type = "iface"
    /\ dest_file[2] = L_comment
    /\ lines[3].line_type = "option"

\* ------------------------------------------------------------------------
\* C16
\* ------------------------------------------------------------------------

\* Numbers of the 'iface' lines of the file that name n.
HeadersOf(n) ==
    {k \in 1..Len(dest_file) :
        /\ IsDirectiveLine(dest_file[k])
        /\ split(dest_file[k])[1] = S_iface
        /\ split(dest_file[k])[2] = n}

\* Numbers of the option lines of the stanza the header in line h opens.
StanzaOf(h) ==
    {k \in (h + 1)..Len(dest_file) :
        InStanza(k) /\ MaxOf(DirectivesBefore(k)) = h}

\* C16: in the interface map of a successful parse, the entry under name n
\* has that name and the address family and method of the last 'iface n'
\* line, and for every option of that stanza the value of its last line.
C16_InterfaceMap ==
    pc = "edit" =>
        \A n \in DOMAIN ifaces :
            LET h == MaxOf(HeadersOf(n))
                words == split(dest_file[h])
            IN  /\ ifaces[n][K_name] = n
                /\ ifaces[n][K_address_family] = words[3]
                /\ ifaces[n][K_method] = words[4]
                /\ \A k \in StanzaOf(h) :
                    LET option == split(dest_file[k])[1]
                        last == MaxOf({j \in StanzaOf(h) : split(dest_file[j])[1] = option})
                    IN  /\ option \in DOMAIN ifaces[n]
                        /\ ifaces[n][option] = join(Tail(split(dest_file[last])))

\* ------------------------------------------------------------------------
\* C17
\* ------------------------------------------------------------------------

\* new is old with the value written after the option name replaced by
\* value, and nothing else touched: for some range of old that starts at or
\* after the end of the option name, holds the words of old_value and
\* neither starts nor ends with whitespace, new is the text before the
\* range, then value, then the text after the range.
ValueSpliced(old, new, option, old_value, value) ==
    \E a \in (Len(LeadingSpace(old)) + Len(option))..Len(old) :
        \E b \in a..Len(old) :
            /\ split(SubSeq(old, a + 1, b)) = split(old_value)
            /\ a < b => ~IsSpace(old[a + 1]) /\ ~IsSpace(old[b])
            /\ new = SubSeq(old, 1, a) \o value \o SubSeq(old, b + 1, Len(old))

\* C17: when a present edit replaces the value of an existing option, the
\* new text is the old text with only the range of the old value replaced
\* by the new value; the leading whitespace, the option name, the separator
\* and the text after the value are kept, and the range is never inside the
\* option name, whatever the old value.
C17_ValueSpliced ==
    [][(EditStep /\ params.state = "present" /\ TargetPositions(lines) # {} /\ changed') =>
        LET last == MaxOf(TargetPositions(lines))
        IN  ValueSpliced(lines[last].line, lines'[last].line, params.option,
                         lines[last].value, str(params.value))
    ]_vars

\* ------------------------------------------------------------------------
\* C18
\* ------------------------------------------------------------------------

\* How often the run did ev to the destination file.
Count(ev) == Cardinality({k \in 1..Len(io) : io[k] = ev})

\* The run has ended.
RunOver == pc \in {"done", "failed"}

\* The run ended in the parameter checks, before the file is opened.
ParamsRejected ==
    pc = "failed" /\ failure.msg \in {"Inteface must be set", "Value must be set"}

\* The file is written at most once, only after an edit that reported
\* changed=true with check mode off, with the requested backup right before
\* the write and no backup without the write; a run without an option, with
\* a no-op edit, in check mode or that failed writes and backs up nothing.
WritesAndBackups ==
    /\ Count("write") <= 1
    /\ \A k \in 1..Len(io) :
        /\ io[k] = "write" =>
            /\ changed /\ ~params.check_mode
            /\ params.backup => k > 1 /\ io[k - 1] = "backup"
        /\ io[k] = "backup" =>
            /\ params.backup /\ changed /\ ~params.check_mode
            /\ IF k = Len(io) THEN pc = "write" ELSE io[k + 1] = "write"
    /\ (params.option = None \/ ~changed \/ params.check_mode \/ pc = "failed") =>
            Count("write") = 0 /\ Count("backup") = 0

\* C18 as stated: in every run the file is read once and written at most
\* once, with the conditions on writes and backups above.
C18_ReadOnce ==
    /\ Count("read") <= 1
    /\ RunOver => Count("read") = 1
    /\ WritesAndBackups

\* C18 amended: in every run the file is read at most once, before anything
\* else is done to it, and exactly once unless the run fails in the
\* parameter checks, which come before the file is opened; writes and
\* backups as stated.
C18_ReadAtMostOnce ==
    /\ Count("read") <= 1
    /\ io # <<>> => io[1] = "read"
    /\ RunOver => Count("read") = (IF ParamsRejected THEN 0 ELSE 1)
    /\ WritesAndBackups

\* A run ended after reading the file, backing it up and writing it.
C18_Witness ==
    /\ pc = "done"
    /\ io = <<"read", "backup", "write">>
    /\ dest_file = LineTexts(lines)

\* ------------------------------------------------------------------------
\* C19
\* ------------------------------------------------------------------------

\* C19: a call of setInterfaceOption returns changed=true exactly when the
\* texts of the returned sequence differ from those of its input, and with
\* changed=false it returns the input.
C19_ChangedIffDiffers ==
    [][EditStep =>
        /\ changed' <=> LineTexts(lines') # LineTexts(lines)
        /\ ~changed' => lines' = lines
    ]_vars

\* A present edit has replaced the text of one line of the file.
C19_Witness ==
    /\ pc = "reparse"
    /\ params.state = "present"
    /\ changed
    /\ Len(lines) = Len(dest_file)
    /\ \E k \in 1..Len(lines) :
        /\ lines[k].line # dest_file[k]
        /\ \A j \in 1..Len(lines) : j # k => lines[j].line = dest_file[j]

\* ------------------------------------------------------------------------
\* C20
\* ------------------------------------------------------------------------

\* r is no record of the requested option of the requested interface.
NotTarget(r) ==
    ~(r.line_type = "option" /\ r.iface = params.iface /\ r.option = params.option)

\* Calls with state absent repeated from ls, each on the result of the one
\* before: every call returns; one that returns changed=true is among the
\* first n and leaves fewer records of the option; one that returns
\* changed=false finds no record of the option, and all other records of
\* orig as they were.
RECURSIVE AbsentSettles(_, _, _)
AbsentSettles(ls, n, orig) ==
    LET r == SecondCall(ls)
    IN  /\ r.status = "ok"
        /\ IF r.changed
           THEN /\ n > 0
                /\ Cardinality(TargetPositions(r.lines)) < Cardinality(TargetPositions(ls))
                /\ AbsentSettles(r.lines, n - 1, orig)
           ELSE /\ TargetPositions(ls) = {}
                /\ r.lines = SelectSeq(orig, NotTarget)

\* C20: repeating setInterfaceOption with state absent on its own result
\* reaches a call that returns changed=false after at most as many calls as
\* the interface had records of the option, each earlier call leaving fewer
\* of them; then no record of the option remains and the header and the
\* other options are still there.
C20_AbsentFixedPoint ==
    (pc = "edit" /\ params.option # None /\ params.state = "absent"
        /\ OwnPositions(lines) # {}) =>
        AbsentSettles(lines, Cardinality(TargetPositions(lines)), lines)

====
